---- MODULE Spec2Model ----
(***************************************************************************)
(* ipswdl2: the download orchestrator (Downloader::begin), the firmware    *)
(* materializer (Downloader::download_firmware) and the ctrl-c watch       *)
(* channel, as a state machine.  The main task and the ctrl-c handler's     *)
(* thread run side by side: a step of the main task holds at most one      *)
(* println, file-system operation, request or drop, so that the handler's  *)
(* println and its send fall between any two of them.                      *)
(***************************************************************************)
EXTENDS Integers, Sequences, FiniteSets, TLC

VARIABLES
    DOWNLOADER_CREATED, \* static mut DOWNLOADER_CREATED
    devices,            \* self.devices
    opt,                \* self.opt: download_path, delete_old_fw, filter_term
    total_done,         \* self.total_done
    total_todo,         \* self.total_todo
    ctrlc_tx,           \* the watch channel's shared state: value and version
    ctrlc_received,     \* the Receiver: the version it has seen
    kill_program,       \* self.kill_program
    pc,                 \* position of the main task
    iter,               \* the for loop's iterator: devices not yet visited, and the filter
    device,             \* the loop variable
    fw,                 \* download_firmware's argument
    file_path,          \* download_firmware's file_path
    temp_file,          \* the NamedTempFile as the file system holds it
    temp_buf,           \* the BufWriter's buffer over the temp file
    dl,                 \* the download stream: bytes delivered, chunks delivered, failure met
    fs,                 \* the file system below download_path
    fs_entry,           \* the file system when download_firmware was last entered
    calls,              \* requests sent to the API, in order
    out,                \* lines printed, in order
    outcome,            \* the path on which the last download_firmware ended
    faults,             \* failures injected so far
    intr,               \* where the device in hand was when the first interrupt arrived
    catalog,            \* the devices new was given
    live,               \* Downloader values alive
    handlers,           \* handlers registered with ctrlc::set_handler in this process
    ctrlc_handler,      \* the handler's thread: the times it has run, whether it has
                        \* printed and not yet sent, and whether it panicked
    leaving,            \* the path on which download_firmware is about to return
    read_dir            \* read_dir's iterator over the old files, and the entry in hand

vars == <<DOWNLOADER_CREATED, devices, opt, total_done, total_todo, ctrlc_tx,
          ctrlc_received, kill_program, pc, iter, device, fw, file_path,
          temp_file, temp_buf, dl, fs, fs_entry, calls, out, outcome, faults,
          intr, catalog, live, handlers, ctrlc_handler, leaving, read_dir>>

(***************************************************************************)
(* Bounds of the model.                                                    *)
(***************************************************************************)
MaxChunks == 2       \* chunks the network delivers in one run
MaxFaults == 1       \* failures (network, I/O) injected in one run
MaxInterrupts == 2   \* ctrl-c presses in one run
BufCap == 2          \* capacity of a BufWriter (scaled down)
MaxNameLen == 3      \* length of a device name the API may answer with

\* Option<T>: None, or Some(x) holding x as its one element
None == <<>>
Some(x) == <<x>>
NoOutcome == "none"
\* the handler has not run
NotRun == [runs |-> 0, printed |-> FALSE, panicked |-> FALSE]
\* no directory is being read
NoDir == [rest |-> {}, entry |-> None, removed |-> FALSE]

(***************************************************************************)
(* Values.  A name is a sequence of characters.                            *)
(***************************************************************************)
DeviceNames == { <<"a", "/", "b">>, <<"B", "\\">> }
FilterTerms == { <<"b">>, <<"/", "b">> }

Device(n) == [name |-> n, identifier |-> n]
Firmware(v) == [identifier |-> "id" \o v, version |-> v, buildid |-> "build" \o v]
FirmwareLists == { <<>>, <<Firmware("2.0"), Firmware("1.0")>> }


(***************************************************************************)
(* str::replace(from, to) with a one-character pattern.                    *)
(***************************************************************************)
\* a replace that stops after the first match
Replace_First(s, from, to) ==
    [i \in 1..Len(s) |->
        IF s[i] = from /\ (\A j \in 1..(i - 1) : s[j] # from) THEN to ELSE s[i]]

Replace(s, from, to) == [i \in 1..Len(s) |-> IF s[i] = from THEN to ELSE s[i]]

\* client.rs: firmware.name.replace('/', "z") then .replace('\\', "z")
Sanitize(name) == Replace(Replace(name, "/", "z"), "\\", "z")

\* str::contains
Contains(name, term) ==
    \E i \in 0..(Len(name) - Len(term)) : SubSeq(name, i + 1, i + Len(term)) = term

\* |d| d.name.contains(&filter); without a filter the loop visits every device
Selected(d, filter) == filter = None \/ Contains(d.name, filter[1])

SelectedDevices(ds, filter) == SelectSeq(ds, LAMBDA d : Selected(d, filter))

\* a file name made of the identifier in place of the version
FilePath_ByIdentifier(listing) ==
    [dir |-> listing.name, file |-> listing.firmwares[1].identifier \o ".ipsw"]

\* download_path.join(fw.name), then push(format!("{}.ipsw", version))
FilePath(listing) ==
    [dir |-> listing.name, file |-> listing.firmwares[1].version \o ".ipsw"]

(***************************************************************************)
(* The file system: the directories that exist and the content of each     *)
(* file.                                                                   *)
(***************************************************************************)
EmptyFs == [dirs |-> {}, files |-> <<>>]
OldContent == <<9>>
OldDir == Sanitize(<<"a", "/", "b">>)
FsWith(file) == [dirs |-> {OldDir},
                 files |-> [p \in {[dir |-> OldDir, file |-> file]} |-> OldContent]]
FsWithOld == [dirs |-> {OldDir},
              files |-> [p \in {[dir |-> OldDir, file |-> "1.0.ipsw"],
                               [dir |-> OldDir, file |-> "0.9.ipsw"]} |-> OldContent]]
InitialFs == { EmptyFs, FsWith("1.0.ipsw"), FsWith("2.0.ipsw"), FsWithOld }

Exists(f, path) == path \in DOMAIN f.files
FilesIn(f, dir) == { p \in DOMAIN f.files : p.dir = dir }
WriteFile(f, path, content) ==
    [f EXCEPT !.files = [p \in DOMAIN f.files \cup {path} |->
                            IF p = path THEN content ELSE f.files[p]]]
RemoveFiles(f, gone) ==
    [f EXCEPT !.files = [p \in DOMAIN f.files \ gone |-> f.files[p]]]
MakeDir(f, dir) == [f EXCEPT !.dirs = @ \cup {dir}]

(***************************************************************************)
(* std::io::BufWriter over the temp file.  write_all keeps a chunk in the  *)
(* buffer while it fits, flushes the buffer first when it does not, and    *)
(* writes a chunk as long as the capacity straight through.  io names the  *)
(* I/O operation that fails ("none", "flush" or "write") and the number n  *)
(* of bytes that operation wrote to the file before it failed.             *)
(***************************************************************************)
Spare(buf) == BufCap - Len(buf)
NeedsFlush(buf, data) == Len(data) > Spare(buf) /\ buf # <<>>
WritesThrough(data) == Len(data) >= BufCap

\* the failures write_all can meet on this buffer with this chunk
NoFailure == [op |-> "none", n |-> 0]
WriteFailures(buf, data) ==
    {NoFailure}
    \cup (IF NeedsFlush(buf, data)
          THEN { [op |-> "flush", n |-> k] : k \in 0..(Len(buf) - 1) } ELSE {})
    \cup (IF Len(data) >= Spare(buf) /\ WritesThrough(data)
          THEN { [op |-> "write", n |-> k] : k \in 0..(Len(data) - 1) } ELSE {})

\* the temp file and the buffer after write_all(data)
WriteAll(file, buf, data, io) ==
    IF Len(data) < Spare(buf)
    THEN [file |-> file, buf |-> buf \o data, ok |-> TRUE]
    ELSE IF NeedsFlush(buf, data) /\ io.op = "flush"
    THEN [file |-> file \o SubSeq(buf, 1, io.n),
          buf |-> SubSeq(buf, io.n + 1, Len(buf)), ok |-> FALSE]
    ELSE LET flushed == IF Len(data) > Spare(buf) THEN file \o buf ELSE file
             kept == IF Len(data) > Spare(buf) THEN <<>> ELSE buf
         IN  IF WritesThrough(data)
             THEN IF io.op = "write"
                  THEN [file |-> flushed \o SubSeq(data, 1, io.n), buf |-> kept, ok |-> FALSE]
                  ELSE [file |-> flushed \o data, buf |-> kept, ok |-> TRUE]
             ELSE [file |-> flushed, buf |-> kept \o data, ok |-> TRUE]

\* what temp_file_read sees when the final copy runs: the bytes that reached
\* the file; the BufWriter is not flushed before the copy
StagedForCopy(file, buf) == file

Prefix(s, k) == SubSeq(s, 1, k)

\* the next chunk of the stream: the bytes are numbered by their position
Chunk(from, len) == [i \in 1..len |-> from + i]

NoDownload == [streamed |-> <<>>, chunks |-> 0, failure |-> "none"]

(***************************************************************************)
(* The state after construction (Downloader::new).                         *)
(***************************************************************************)
\* the catalog lists of the model: no device, one device, two devices (the
\* API lists a device once)
CatalogDevices == { Device(n) : n \in DeviceNames }
Catalogs ==
    { <<>> } \cup { <<d>> : d \in CatalogDevices }
             \cup { p \in CatalogDevices \X CatalogDevices : p[1] # p[2] }

Init ==
    /\ DOWNLOADER_CREATED = TRUE
    /\ devices \in Catalogs
    /\ opt \in [delete_old_fw : BOOLEAN, filter_term : {None} \cup { Some(t) : t \in FilterTerms }]
    /\ total_done = 0
    /\ total_todo = Len(devices)
    /\ ctrlc_tx = [value |-> FALSE, version |-> 0]
    /\ ctrlc_received = 0
    /\ kill_program = FALSE
    /\ pc = "begin"
    /\ iter = [rest |-> <<>>, filter |-> None]
    /\ device = None
    /\ fw = None
    /\ file_path = None
    /\ temp_file = None
    /\ temp_buf = <<>>
    /\ dl = NoDownload
    /\ fs \in InitialFs
    /\ fs_entry = fs
    /\ calls = <<>>
    /\ out = <<>>
    /\ outcome = NoOutcome
    /\ faults = 0
    /\ intr = None
    /\ catalog = devices
    /\ live = 1
    /\ handlers = 1
    /\ ctrlc_handler = NotRun
    /\ leaving = NoOutcome
    /\ read_dir = NoDir

(***************************************************************************)
(* The ctrl-c handler (downloader.rs 56-60), on its own thread: it prints  *)
(* its line, logs, and sends true.  The main task runs between the println *)
(* and the send.  The send fails when the Receiver was dropped with the    *)
(* Downloader, and the unwrap then panics in the handler's thread.         *)
(***************************************************************************)
\* where the device in hand is: its download_firmware has not begun, has
\* begun, or is in mid-stream (a chunk has been staged and the end of the
\* stream is not delivered)
Phase ==
    IF pc \in {"begin", "loop", "fetching", "ended"} THEN "before"
    ELSE IF pc \in {"select", "append_failed"} /\ dl.chunks > 0 THEN "mid_stream"
    ELSE "begun"

\* line 57: the handler is called and prints its line
Interrupt ==
    /\ ~ctrlc_handler.panicked
    /\ ~ctrlc_handler.printed
    /\ ctrlc_handler.runs < MaxInterrupts
    /\ out' = Append(out, <<"ctrlc received, exiting...">>)
    /\ ctrlc_handler' = [ctrlc_handler EXCEPT !.runs = @ + 1, !.printed = TRUE]
    /\ UNCHANGED <<DOWNLOADER_CREATED, devices, opt, total_done, total_todo,
                   ctrlc_tx, ctrlc_received, kill_program, pc, iter, device,
                   fw, file_path, temp_file, temp_buf, dl, fs, fs_entry,
                   calls, outcome, faults, intr, catalog, live, handlers,
                   leaving, read_dir>>

\* line 59: ctrlc_tx.send(true).unwrap()
HandlerSend ==
    /\ ctrlc_handler.printed
    /\ IF live > 0
       THEN /\ ctrlc_tx' = [value |-> TRUE, version |-> ctrlc_tx.version + 1]
            /\ ctrlc_handler' = [ctrlc_handler EXCEPT !.printed = FALSE]
            /\ intr' = IF intr = None THEN Some(Phase) ELSE intr
       ELSE /\ ctrlc_handler' = [ctrlc_handler EXCEPT !.printed = FALSE, !.panicked = TRUE]
            /\ UNCHANGED <<ctrlc_tx, intr>>
    /\ UNCHANGED <<DOWNLOADER_CREATED, devices, opt, total_done, total_todo,
                   ctrlc_received, kill_program, pc, iter, device, fw,
                   file_path, temp_file, temp_buf, dl, fs, fs_entry, calls,
                   out, outcome, faults, catalog, live, handlers, leaving,
                   read_dir>>

\* Receiver::changed() is ready when the channel holds a version not yet seen
Changed == ctrlc_tx.version # ctrlc_received

(***************************************************************************)
(* Downloader::begin.                                                      *)
(***************************************************************************)
\* a begin that leaves total_todo at the length of the whole list
Begin_KeepsTotal ==
    /\ pc = "begin"
    /\ opt' = [opt EXCEPT !.filter_term = None]
    /\ total_todo' = total_todo
    /\ iter' = [rest |-> devices, filter |-> opt.filter_term]
    /\ devices' = <<>>
    /\ pc' = "loop"
    /\ UNCHANGED <<DOWNLOADER_CREATED, total_done, ctrlc_tx, ctrlc_received,
                   kill_program, device, fw, file_path, temp_file, temp_buf,
                   dl, fs, fs_entry, calls, out, outcome, faults, intr,
                   catalog, live, handlers, ctrlc_handler, leaving, read_dir>>

\* lines 78-95 (and 113): take the filter, recount total_todo, take the devices
Begin ==
    /\ pc = "begin"
    /\ opt' = [opt EXCEPT !.filter_term = None]
    /\ total_todo' = IF opt.filter_term = None
                     THEN total_todo
                     ELSE Len(SelectedDevices(devices, opt.filter_term))
    /\ iter' = [rest |-> devices, filter |-> opt.filter_term]
    /\ devices' = <<>>
    /\ pc' = "loop"
    /\ UNCHANGED <<DOWNLOADER_CREATED, total_done, ctrlc_tx, ctrlc_received,
                   kill_program, device, fw, file_path, temp_file, temp_buf,
                   dl, fs, fs_entry, calls, out, outcome, faults, intr,
                   catalog, live, handlers, ctrlc_handler, leaving, read_dir>>

\* Iterator::next of the (filtered) iterator: what is left from the first
\* selected device on
RECURSIVE SkipUnselected(_, _)
SkipUnselected(rest, filter) ==
    IF rest = <<>> \/ Selected(Head(rest), filter) THEN rest
    ELSE SkipUnselected(Tail(rest), filter)

\* lines 92-97 (113-115): the loop takes the next device and requests its listing
StartDevice ==
    /\ pc = "loop"
    /\ LET rest == SkipUnselected(iter.rest, iter.filter)
       IN  /\ rest # <<>>
           /\ device' = Some(Head(rest))
           /\ iter' = [iter EXCEPT !.rest = Tail(rest)]
           /\ calls' = Append(calls, <<"get_device_firmware", Head(rest).identifier>>)
    /\ pc' = "fetching"
    /\ fw' = None
    /\ file_path' = None
    /\ outcome' = NoOutcome
    /\ dl' = NoDownload
    /\ intr' = IF intr = None THEN None ELSE Some("before")
    /\ UNCHANGED <<DOWNLOADER_CREATED, devices, opt, total_done, total_todo,
                   ctrlc_tx, ctrlc_received, kill_program, temp_file,
                   temp_buf, fs, fs_entry, out, faults, catalog, live,
                   handlers, ctrlc_handler, leaving, read_dir>>

\* lines 131-134: the loop is over, the elapsed time is printed
Finish ==
    /\ pc = "loop"
    /\ SkipUnselected(iter.rest, iter.filter) = <<>>
    /\ iter' = [iter EXCEPT !.rest = <<>>]
    /\ out' = Append(out, <<"Finished in minutes">>)
    /\ pc' = "finished"
    /\ UNCHANGED <<DOWNLOADER_CREATED, devices, opt, total_done, total_todo,
                   ctrlc_tx, ctrlc_received, kill_program, device, fw,
                   file_path, temp_file, temp_buf, dl, fs, fs_entry, calls,
                   outcome, faults, intr, catalog, live, handlers,
                   ctrlc_handler, leaving, read_dir>>

\* lines 106 (124) and 139: begin returns, the Downloader it owns is dropped
\* (355-362)
BeginReturns ==
    /\ pc \in {"finished", "killed"}
    /\ pc' = "done"
    /\ DOWNLOADER_CREATED' = FALSE
    /\ live' = 0
    /\ UNCHANGED <<devices, opt, total_done, total_todo, ctrlc_tx,
                   ctrlc_received, kill_program, iter, device, fw, file_path,
                   temp_file, temp_buf, dl, fs, fs_entry, calls, out, outcome,
                   faults, intr, catalog, handlers, ctrlc_handler, leaving,
                   read_dir>>

\* a listing error that tells the run to die
FetchErr_Aborts ==
    /\ pc = "fetching"
    /\ faults < MaxFaults
    /\ faults' = faults + 1
    /\ out' = Append(out, <<"Process errored when downloading firmware for", device[1].name>>)
    /\ kill_program' = TRUE
    /\ pc' = "returning"
    /\ UNCHANGED <<DOWNLOADER_CREATED, devices, opt, total_done, total_todo,
                   ctrlc_tx, ctrlc_received, iter, device, fw, file_path,
                   temp_file, temp_buf, dl, fs, fs_entry, calls, outcome,
                   intr, catalog, live, handlers, ctrlc_handler, leaving,
                   read_dir>>

\* lines 99-101, Err arm: get_device_firmware failed, report_err (326-337)
FetchErr ==
    /\ pc = "fetching"
    /\ faults < MaxFaults
    /\ faults' = faults + 1
    /\ out' = Append(out, <<"Process errored when downloading firmware for", device[1].name>>)
    /\ pc' = "returning"
    /\ UNCHANGED <<DOWNLOADER_CREATED, devices, opt, total_done, total_todo,
                   ctrlc_tx, ctrlc_received, kill_program, iter, device, fw,
                   file_path, temp_file, temp_buf, dl, fs, fs_entry, calls,
                   outcome, intr, catalog, live, handlers, ctrlc_handler,
                   leaving, read_dir>>

\* a return that removes the temp file only after a promotion
Return_KeepsOnFailure(o) ==
    /\ outcome' = o
    /\ temp_file' = IF o = "completed" THEN None ELSE temp_file
    /\ temp_buf' = IF o = "completed" THEN <<>> ELSE temp_buf

\* a return that leaves the temp file behind
Return_KeepsStage(o) ==
    /\ outcome' = o
    /\ temp_file' = temp_file
    /\ temp_buf' = temp_buf

\* download_firmware returns: its locals are dropped, the temp file with them
Return(o) ==
    /\ outcome' = o
    /\ temp_file' = None
    /\ temp_buf' = <<>>

\* after_fw_download's count placed before the kill_program check
EndDevice_CountsBeforeKill(kill) ==
    /\ pc' = IF kill THEN "killed" ELSE "ended"
    /\ total_done' = total_done + 1

\* a loop that does not look at kill_program
EndDevice_IgnoresKill(kill) ==
    /\ pc' = "ended"
    /\ total_done' = total_done + 1

\* lines 104-109 (122-127) and 341: begin is about to return when told to
\* die; else after_fw_download raises total_done
EndDevice(kill) ==
    IF kill
    THEN /\ pc' = "killed"
         /\ UNCHANGED total_done
    ELSE /\ pc' = "ended"
         /\ total_done' = total_done + 1

\* lines 99-109 and 341: the match arm is over (download_firmware or
\* report_err has returned), begin looks at kill_program
MatchEnds ==
    /\ pc = "returning"
    /\ Return(leaving)
    /\ leaving' = NoOutcome
    /\ EndDevice(kill_program)
    /\ UNCHANGED <<DOWNLOADER_CREATED, devices, opt, total_todo, ctrlc_tx,
                   ctrlc_received, kill_program, iter, device, fw, file_path,
                   dl, fs, fs_entry, calls, out, faults, intr, catalog, live,
                   handlers, ctrlc_handler, read_dir>>

\* lines 343-351: after_fw_download prints its progress line
AfterFwDownload ==
    /\ pc = "ended"
    /\ out' = Append(out, <<"Ended work on", device[1].name, total_done, total_todo>>)
    /\ pc' = "loop"
    /\ UNCHANGED <<DOWNLOADER_CREATED, devices, opt, total_done, total_todo,
                   ctrlc_tx, ctrlc_received, kill_program, iter, device, fw,
                   file_path, temp_file, temp_buf, dl, fs, fs_entry, calls,
                   outcome, faults, intr, catalog, live, handlers,
                   ctrlc_handler, leaving, read_dir>>

\* a panic unwinds the main task: download_firmware's locals are dropped,
\* the temp file with them
Panic ==
    /\ pc' = "unwinding"
    /\ temp_file' = None
    /\ temp_buf' = <<>>
    /\ outcome' = "panicked"

\* the unwinding leaves begin: the Downloader it owns is dropped (355-362)
Unwound ==
    /\ pc = "unwinding"
    /\ pc' = "panicked"
    /\ DOWNLOADER_CREATED' = FALSE
    /\ live' = 0
    /\ UNCHANGED <<devices, opt, total_done, total_todo, ctrlc_tx,
                   ctrlc_received, kill_program, iter, device, fw, file_path,
                   temp_file, temp_buf, dl, fs, fs_entry, calls, out, outcome,
                   faults, intr, catalog, handlers, ctrlc_handler, leaving,
                   read_dir>>

\* client.rs 35-44: the listing of the response (the API answers with the
\* record of the device asked for), its name sanitized
Listings == [name : {device[1].name}, firmwares : FirmwareLists]
Received(listing) == [listing EXCEPT !.name = Sanitize(listing.name)]

\* an emptiness check placed after the stale-file deletion
FetchNoFirmware_DeletesFirst ==
    /\ pc = "fetching"
    /\ \E listing \in Listings :
        /\ Received(listing).firmwares = <<>>
        /\ fw' = Some(Received(listing))
        /\ out' = Append(out, <<"has no firmware for download", Received(listing).name>>)
        /\ fs' = IF opt.delete_old_fw
                 THEN RemoveFiles(fs, FilesIn(fs, Received(listing).name)) ELSE fs
    /\ leaving' = "no_firmware"
    /\ pc' = "returning"
    /\ fs_entry' = fs
    /\ UNCHANGED <<DOWNLOADER_CREATED, devices, opt, total_done, total_todo,
                   ctrlc_tx, ctrlc_received, kill_program, iter, device,
                   file_path, temp_file, temp_buf, dl, calls, outcome, faults,
                   intr, catalog, live, handlers, ctrlc_handler, read_dir>>

\* lines 151-158: the listing has no firmware
FetchNoFirmware ==
    /\ pc = "fetching"
    /\ \E listing \in Listings :
        /\ Received(listing).firmwares = <<>>
        /\ fw' = Some(Received(listing))
        /\ out' = Append(out, <<"has no firmware for download", Received(listing).name>>)
    /\ leaving' = "no_firmware"
    /\ pc' = "returning"
    /\ fs_entry' = fs
    /\ UNCHANGED <<DOWNLOADER_CREATED, devices, opt, total_done, total_todo,
                   ctrlc_tx, ctrlc_received, kill_program, iter, device,
                   file_path, temp_file, temp_buf, dl, fs, calls, outcome,
                   faults, intr, catalog, live, handlers, ctrlc_handler,
                   read_dir>>

\* lines 160-177: the file is already there
FetchAlreadyDownloaded ==
    /\ pc = "fetching"
    /\ \E listing \in Listings :
        /\ Received(listing).firmwares # <<>>
        /\ Exists(fs, FilePath(Received(listing)))
        /\ fw' = Some(Received(listing))
        /\ file_path' = Some(FilePath(Received(listing)))
        /\ out' = Append(out, <<"is already downloaded, skipping", Received(listing).name>>)
    /\ leaving' = "already_downloaded"
    /\ pc' = "returning"
    /\ fs_entry' = fs
    /\ UNCHANGED <<DOWNLOADER_CREATED, devices, opt, total_done, total_todo,
                   ctrlc_tx, ctrlc_received, kill_program, iter, device,
                   temp_file, temp_buf, dl, fs, calls, outcome, faults, intr,
                   catalog, live, handlers, ctrlc_handler, read_dir>>


(***************************************************************************)
(* download_firmware from the stale-file deletion to the stream request.   *)
(***************************************************************************)
\* lines 180-181: the files of the directory the deletion is about: those of
\* file_path's parent when delete_old_fw is set and the directory is there
FilesToDelete(f, d, wanted) == IF wanted /\ d \in f.dirs THEN FilesIn(f, d) ELSE {}

\* lines 181-182: the entries for_each is handed: every file of the
\* directory; none when read_dir returns Err (if let Ok(dir)); not those
\* whose entry cannot be read (filter_map(|e| e.ok()))
DirEntries(f, d, wanted) == SUBSET FilesToDelete(f, d, wanted)

\* lines 160-181: the final path is absent; with delete_old_fw the directory
\* of the device is read
FetchStartDownload ==
    /\ pc = "fetching"
    /\ \E listing \in Listings :
        LET got == Received(listing)
            path == FilePath(got)
        IN  /\ got.firmwares # <<>>
            /\ ~Exists(fs, path)
            /\ fw' = Some(got)
            /\ file_path' = Some(path)
            /\ \E seen \in DirEntries(fs, path.dir, opt.delete_old_fw) :
                /\ seen # FilesToDelete(fs, path.dir, opt.delete_old_fw) => faults < MaxFaults
                /\ faults' = IF seen = FilesToDelete(fs, path.dir, opt.delete_old_fw)
                              THEN faults ELSE faults + 1
                /\ read_dir' = [NoDir EXCEPT !.rest = seen]
    /\ fs_entry' = fs
    /\ pc' = "deleting"
    /\ UNCHANGED <<DOWNLOADER_CREATED, devices, opt, total_done, total_todo,
                   ctrlc_tx, ctrlc_received, kill_program, iter, device,
                   temp_file, temp_buf, dl, fs, calls, out, outcome, intr,
                   catalog, live, handlers, ctrlc_handler, leaving>>

\* line 183: remove_file on the next entry of the directory
RemoveOld ==
    /\ pc = "deleting"
    /\ \E e \in read_dir.rest : \E ok \in BOOLEAN :
        /\ ~ok => faults < MaxFaults
        /\ faults' = IF ok THEN faults ELSE faults + 1
        /\ fs' = IF ok THEN RemoveFiles(fs, {e}) ELSE fs
        /\ read_dir' = [rest |-> read_dir.rest \ {e}, entry |-> Some(e), removed |-> ok]
    /\ pc' = "removed"
    /\ UNCHANGED <<DOWNLOADER_CREATED, devices, opt, total_done, total_todo,
                   ctrlc_tx, ctrlc_received, kill_program, iter, device, fw,
                   file_path, temp_file, temp_buf, dl, fs_entry, calls, out,
                   outcome, intr, catalog, live, handlers, ctrlc_handler,
                   leaving>>

\* lines 184-205: the removal, or its failure, is printed
ReportRemoval ==
    /\ pc = "removed"
    /\ out' = Append(out, <<IF read_dir.removed THEN "deleted old file"
                            ELSE "failed to delete old file", read_dir.entry[1].file>>)
    /\ read_dir' = [read_dir EXCEPT !.entry = None, !.removed = FALSE]
    /\ pc' = "deleting"
    /\ UNCHANGED <<DOWNLOADER_CREATED, devices, opt, total_done, total_todo,
                   ctrlc_tx, ctrlc_received, kill_program, iter, device, fw,
                   file_path, temp_file, temp_buf, dl, fs, fs_entry, calls,
                   outcome, faults, intr, catalog, live, handlers,
                   ctrlc_handler, leaving>>

\* lines 210-213: the directory is done with; the download is announced
BeginDownload ==
    /\ pc = "deleting"
    /\ read_dir.rest = {}
    /\ out' = Append(out, <<"Beginning to download", fw[1].name, fw[1].firmwares[1].version>>)
    /\ pc' = "staging"
    /\ UNCHANGED <<DOWNLOADER_CREATED, devices, opt, total_done, total_todo,
                   ctrlc_tx, ctrlc_received, kill_program, iter, device, fw,
                   file_path, temp_file, temp_buf, dl, fs, fs_entry, calls,
                   outcome, faults, intr, catalog, live, handlers,
                   ctrlc_handler, leaving, read_dir>>

\* line 218: NamedTempFile::new makes the temp file, empty
CreateStage ==
    /\ pc = "staging"
    /\ temp_file' = Some(<<>>)
    /\ temp_buf' = <<>>
    /\ pc' = "reopening"
    /\ UNCHANGED <<DOWNLOADER_CREATED, devices, opt, total_done, total_todo,
                   ctrlc_tx, ctrlc_received, kill_program, iter, device, fw,
                   file_path, dl, fs, fs_entry, calls, out, outcome, faults,
                   intr, catalog, live, handlers, ctrlc_handler, leaving,
                   read_dir>>

\* lines 220-221: the temp file is opened a second time, for reading, and
\* the first handle is wrapped in a BufWriter
Reopen ==
    /\ pc = "reopening"
    /\ pc' = "staged"
    /\ UNCHANGED <<DOWNLOADER_CREATED, devices, opt, total_done, total_todo,
                   ctrlc_tx, ctrlc_received, kill_program, iter, device, fw,
                   file_path, temp_file, temp_buf, dl, fs, fs_entry, calls,
                   out, outcome, faults, intr, catalog, live, handlers,
                   ctrlc_handler, leaving, read_dir>>

\* line 224 (client.rs 51-52): the request for the stream is sent
RequestStream ==
    /\ pc = "staged"
    /\ dl' = NoDownload
    /\ calls' = Append(calls, <<"download_ipsw", fw[1].firmwares[1].identifier,
                                fw[1].firmwares[1].buildid>>)
    /\ pc' = "opening"
    /\ UNCHANGED <<DOWNLOADER_CREATED, devices, opt, total_done, total_todo,
                   ctrlc_tx, ctrlc_received, kill_program, iter, device, fw,
                   file_path, temp_file, temp_buf, fs, fs_entry, out, outcome,
                   faults, intr, catalog, live, handlers, ctrlc_handler,
                   leaving, read_dir>>

\* lines 218-220: NamedTempFile::new().unwrap() panics, no temp file was
\* made; or reopen().unwrap() panics, and the temp file made at line 218 is
\* dropped by the unwinding
FetchTempFails ==
    /\ pc \in {"staging", "reopening"}
    /\ faults < MaxFaults
    /\ faults' = faults + 1
    /\ Panic
    /\ UNCHANGED <<DOWNLOADER_CREATED, devices, opt, total_done, total_todo,
                   ctrlc_tx, ctrlc_received, kill_program, iter, device, fw,
                   file_path, dl, fs, fs_entry, calls, out, intr, catalog,
                   live, handlers, ctrlc_handler, leaving, read_dir>>

\* lines 225-238: download_ipsw returned Err
OpenErr ==
    /\ pc = "opening"
    /\ faults < MaxFaults
    /\ faults' = faults + 1
    /\ out' = Append(out, <<"errored on Apples API. Skipping download", fw[1].name,
                            fw[1].firmwares[1].identifier>>)
    /\ leaving' = "open_failed"
    /\ pc' = "returning"
    /\ UNCHANGED <<DOWNLOADER_CREATED, devices, opt, total_done, total_todo,
                   ctrlc_tx, ctrlc_received, kill_program, iter, device, fw,
                   file_path, temp_file, temp_buf, dl, fs, fs_entry, calls,
                   outcome, intr, catalog, live, handlers, ctrlc_handler,
                   read_dir>>

\* client.rs 53-55: the response has no usable location header
OpenPanics ==
    /\ pc = "opening"
    /\ faults < MaxFaults
    /\ faults' = faults + 1
    /\ Panic
    /\ UNCHANGED <<DOWNLOADER_CREATED, devices, opt, total_done, total_todo,
                   ctrlc_tx, ctrlc_received, kill_program, iter, device, fw,
                   file_path, dl, fs, fs_entry, calls, out, intr, catalog,
                   live, handlers, ctrlc_handler, leaving, read_dir>>

\* line 240: the stream is open, the select loop starts
OpenOk ==
    /\ pc = "opening"
    /\ pc' = "select"
    /\ UNCHANGED <<DOWNLOADER_CREATED, devices, opt, total_done, total_todo,
                   ctrlc_tx, ctrlc_received, kill_program, iter, device, fw,
                   file_path, temp_file, temp_buf, dl, fs, fs_entry, calls,
                   out, outcome, faults, intr, catalog, live, handlers,
                   ctrlc_handler, leaving, read_dir>>

(***************************************************************************)
(* The select loop (lines 251-322).  The stream branch can be ready at any *)
(* poll; the ctrl-c branch is ready when the channel has changed; select!  *)
(* takes either of two ready branches.                                     *)
(***************************************************************************)
\* lines 256-273, Some(Ok(chunk)): the chunk goes through the BufWriter
SelectChunk ==
    /\ pc = "select"
    /\ dl.chunks < MaxChunks
    /\ \E len \in 1..BufCap :
        LET data == Chunk(Len(dl.streamed), len)
        IN  \E io \in WriteFailures(temp_buf, data) :
              LET w == WriteAll(temp_file[1], temp_buf, data, io)
              IN  /\ io # NoFailure => faults < MaxFaults
                  /\ faults' = IF io = NoFailure THEN faults ELSE faults + 1
                  /\ temp_file' = Some(w.file)
                  /\ temp_buf' = w.buf
                  /\ dl' = [streamed |-> dl.streamed \o data,
                            chunks |-> dl.chunks + 1,
                            failure |-> IF w.ok THEN dl.failure ELSE "append"]
                  /\ pc' = IF w.ok THEN "select" ELSE "append_failed"
    /\ UNCHANGED <<DOWNLOADER_CREATED, devices, opt, total_done, total_todo,
                   ctrlc_tx, ctrlc_received, kill_program, iter, device, fw,
                   file_path, fs, fs_entry, calls, out, outcome, intr,
                   catalog, live, handlers, ctrlc_handler, leaving, read_dir>>

\* lines 274-279: a failed write_all is printed and the loop goes on
ReportAppendFailed ==
    /\ pc = "append_failed"
    /\ out' = Append(out, <<"Could not create file", file_path[1]>>)
    /\ pc' = "select"
    /\ UNCHANGED <<DOWNLOADER_CREATED, devices, opt, total_done, total_todo,
                   ctrlc_tx, ctrlc_received, kill_program, iter, device, fw,
                   file_path, temp_file, temp_buf, dl, fs, fs_entry, calls,
                   outcome, faults, intr, catalog, live, handlers,
                   ctrlc_handler, leaving, read_dir>>

\* lines 256-265, Some(Err(_)): the error is printed
SelectChunkErr ==
    /\ pc = "select"
    /\ faults < MaxFaults
    /\ faults' = faults + 1
    /\ out' = Append(out, <<"Error writing file", file_path[1]>>)
    /\ dl' = [dl EXCEPT !.failure = "chunk"]
    /\ pc' = "unwrap"
    /\ UNCHANGED <<DOWNLOADER_CREATED, devices, opt, total_done, total_todo,
                   ctrlc_tx, ctrlc_received, kill_program, iter, device, fw,
                   file_path, temp_file, temp_buf, fs, fs_entry, calls,
                   outcome, intr, catalog, live, handlers, ctrlc_handler,
                   leaving, read_dir>>

\* line 269: byte.unwrap() on the Err panics
UnwrapPanics ==
    /\ pc = "unwrap"
    /\ Panic
    /\ UNCHANGED <<DOWNLOADER_CREATED, devices, opt, total_done, total_todo,
                   ctrlc_tx, ctrlc_received, kill_program, iter, device, fw,
                   file_path, dl, fs, fs_entry, calls, out, faults, intr,
                   catalog, live, handlers, ctrlc_handler, leaving, read_dir>>

\* lines 281-284: the stream is done; create_dir_all returns Err, whether
\* or not the directory is there (mkdir may fail on an existing directory
\* with an error other than AlreadyExists)
SelectEndDirFails ==
    /\ pc = "select"
    /\ faults < MaxFaults
    /\ faults' = faults + 1
    /\ pc' = "no_dir"
    /\ UNCHANGED <<DOWNLOADER_CREATED, devices, opt, total_done, total_todo,
                   ctrlc_tx, ctrlc_received, kill_program, iter, device, fw,
                   file_path, temp_file, temp_buf, dl, fs, fs_entry, calls,
                   out, outcome, intr, catalog, live, handlers, ctrlc_handler,
                   leaving, read_dir>>

\* lines 285-287: File::create fails: for want of the directory, or in the
\* directory
SelectEndCreateFails ==
    /\ \/ /\ pc = "no_dir"
          /\ file_path[1].dir \notin fs.dirs
          /\ UNCHANGED faults
       \/ /\ pc \in {"no_dir", "creating"}
          /\ file_path[1].dir \in fs.dirs
          /\ faults < MaxFaults
          /\ faults' = faults + 1
    /\ dl' = [dl EXCEPT !.failure = "create"]
    /\ pc' = "create_failed"
    /\ UNCHANGED <<DOWNLOADER_CREATED, devices, opt, total_done, total_todo,
                   ctrlc_tx, ctrlc_received, kill_program, iter, device, fw,
                   file_path, temp_file, temp_buf, fs, fs_entry, calls, out,
                   outcome, intr, catalog, live, handlers, ctrlc_handler,
                   leaving, read_dir>>

\* lines 285-287: create_dir_all returned Err, the directory is there and
\* File::create makes the final file, empty; dir_creation_result.is_err()
\* sends the code to the failure branch all the same
CreateFileDirFailed ==
    /\ pc = "no_dir"
    /\ file_path[1].dir \in fs.dirs
    /\ fs' = WriteFile(fs, file_path[1], <<>>)
    /\ dl' = [dl EXCEPT !.failure = "create"]
    /\ pc' = "create_failed"
    /\ UNCHANGED <<DOWNLOADER_CREATED, devices, opt, total_done, total_todo,
                   ctrlc_tx, ctrlc_received, kill_program, iter, device, fw,
                   file_path, temp_file, temp_buf, fs_entry, calls, out,
                   outcome, faults, intr, catalog, live, handlers,
                   ctrlc_handler, leaving, read_dir>>

\* lines 288-292: the failed creation is printed, download_firmware returns
ReportCreateFailed ==
    /\ pc = "create_failed"
    /\ out' = Append(out, <<"Could not create file", file_path[1]>>)
    /\ leaving' = "create_failed"
    /\ pc' = "returning"
    /\ UNCHANGED <<DOWNLOADER_CREATED, devices, opt, total_done, total_todo,
                   ctrlc_tx, ctrlc_received, kill_program, iter, device, fw,
                   file_path, temp_file, temp_buf, dl, fs, fs_entry, calls,
                   outcome, faults, intr, catalog, live, handlers,
                   ctrlc_handler, read_dir>>

\* the final file after a copy of the first kept bytes of the stage
Promoted(f, path, staged, kept) == WriteFile(MakeDir(f, path.dir), path, Prefix(staged, kept))

\* lines 281-284: the stream is done; create_dir_all makes the final
\* directory
SelectEnd ==
    /\ pc = "select"
    /\ fs' = MakeDir(fs, file_path[1].dir)
    /\ pc' = "creating"
    /\ UNCHANGED <<DOWNLOADER_CREATED, devices, opt, total_done, total_todo,
                   ctrlc_tx, ctrlc_received, kill_program, iter, device, fw,
                   file_path, temp_file, temp_buf, dl, fs_entry, calls, out,
                   outcome, faults, intr, catalog, live, handlers,
                   ctrlc_handler, leaving, read_dir>>

\* lines 285-299: File::create makes the final file, empty
CreateFile ==
    /\ pc = "creating"
    /\ fs' = Promoted(fs, file_path[1], <<>>, 0)
    /\ pc' = "copying"
    /\ UNCHANGED <<DOWNLOADER_CREATED, devices, opt, total_done, total_todo,
                   ctrlc_tx, ctrlc_received, kill_program, iter, device, fw,
                   file_path, temp_file, temp_buf, dl, fs_entry, calls, out,
                   outcome, faults, intr, catalog, live, handlers,
                   ctrlc_handler, leaving, read_dir>>

\* lines 300, 308-312: io::copy writes the staged bytes to the final file
\* and the loop is left
Copy ==
    /\ pc = "copying"
    /\ LET staged == StagedForCopy(temp_file[1], temp_buf)
       IN  fs' = Promoted(fs, file_path[1], staged, Len(staged))
    /\ leaving' = "completed"
    /\ pc' = "returning"
    /\ UNCHANGED <<DOWNLOADER_CREATED, devices, opt, total_done, total_todo,
                   ctrlc_tx, ctrlc_received, kill_program, iter, device, fw,
                   file_path, temp_file, temp_buf, dl, fs_entry, calls, out,
                   outcome, faults, intr, catalog, live, handlers,
                   ctrlc_handler, read_dir>>

\* io::copy from the temp file to the final file writes straight to the
\* file (end_file_stream's buffer stays empty): when the copy fails, the
\* final file holds the bytes written before the failure, which may be all
\* of them (the call that would find the end of the temp file fails).
\* The lengths the final file can have when the copy fails
FailedCopyLengths(staged) == 0..Len(staged)

\* lines 300-301: io::copy fails after k bytes
SelectEndCopyFails ==
    /\ pc = "copying"
    /\ faults < MaxFaults
    /\ faults' = faults + 1
    /\ \E k \in FailedCopyLengths(StagedForCopy(temp_file[1], temp_buf)) :
        fs' = Promoted(fs, file_path[1], StagedForCopy(temp_file[1], temp_buf), k)
    /\ dl' = [dl EXCEPT !.failure = "copy"]
    /\ pc' = "copy_failed"
    /\ UNCHANGED <<DOWNLOADER_CREATED, devices, opt, total_done, total_todo,
                   ctrlc_tx, ctrlc_received, kill_program, iter, device, fw,
                   file_path, temp_file, temp_buf, fs_entry, calls, out,
                   outcome, intr, catalog, live, handlers, ctrlc_handler,
                   leaving, read_dir>>

\* lines 302-306: the failed copy is printed, download_firmware returns
ReportCopyFailed ==
    /\ pc = "copy_failed"
    /\ out' = Append(out, <<"Could not create file", file_path[1], "copy">>)
    /\ leaving' = "copy_failed"
    /\ pc' = "returning"
    /\ UNCHANGED <<DOWNLOADER_CREATED, devices, opt, total_done, total_todo,
                   ctrlc_tx, ctrlc_received, kill_program, iter, device, fw,
                   file_path, temp_file, temp_buf, dl, fs, fs_entry, calls,
                   outcome, faults, intr, catalog, live, handlers,
                   ctrlc_handler, read_dir>>

\* a cancel branch that falls through to the promotion
SelectCancel_Promotes ==
    /\ pc = "select"
    /\ Changed
    /\ ctrlc_received' = ctrlc_tx.version
    /\ kill_program' = TRUE
    /\ fs' = Promoted(fs, file_path[1], temp_file[1], Len(temp_file[1]))
    /\ leaving' = "cancelled"
    /\ pc' = "returning"
    /\ UNCHANGED <<DOWNLOADER_CREATED, devices, opt, total_done, total_todo,
                   ctrlc_tx, iter, device, fw, file_path, temp_file, temp_buf,
                   dl, fs_entry, calls, out, outcome, faults, intr, catalog,
                   live, handlers, ctrlc_handler, read_dir>>

\* a cancel branch without its break: the loop goes on to the next select
SelectCancel_NoBreak ==
    /\ pc = "select"
    /\ Changed
    /\ ctrlc_received' = ctrlc_tx.version
    /\ kill_program' = TRUE
    /\ UNCHANGED <<DOWNLOADER_CREATED, devices, opt, total_done, total_todo,
                   ctrlc_tx, pc, iter, device, fw, file_path, temp_file,
                   temp_buf, dl, fs, fs_entry, calls, out, outcome, faults,
                   intr, catalog, live, handlers, ctrlc_handler, leaving,
                   read_dir>>

\* lines 317-320: changed() resolved; kill_program is set and the loop is left
SelectCancel ==
    /\ pc = "select"
    /\ Changed
    /\ ctrlc_received' = ctrlc_tx.version
    /\ kill_program' = TRUE
    /\ leaving' = "cancelled"
    /\ pc' = "returning"
    /\ UNCHANGED <<DOWNLOADER_CREATED, devices, opt, total_done, total_todo,
                   ctrlc_tx, iter, device, fw, file_path, temp_file, temp_buf,
                   dl, fs, fs_entry, calls, out, outcome, faults, intr,
                   catalog, live, handlers, ctrlc_handler, read_dir>>

Next ==
    \/ Interrupt
    \/ HandlerSend
    \/ Begin
    \/ StartDevice
    \/ Finish
    \/ BeginReturns
    \/ FetchErr
    \/ MatchEnds
    \/ AfterFwDownload
    \/ FetchNoFirmware
    \/ FetchAlreadyDownloaded
    \/ FetchStartDownload
    \/ RemoveOld
    \/ ReportRemoval
    \/ BeginDownload
    \/ CreateStage
    \/ Reopen
    \/ RequestStream
    \/ FetchTempFails
    \/ OpenErr
    \/ OpenPanics
    \/ OpenOk
    \/ SelectChunk
    \/ ReportAppendFailed
    \/ SelectChunkErr
    \/ UnwrapPanics
    \/ Unwound
    \/ SelectEndDirFails
    \/ SelectEndCreateFails
    \/ CreateFileDirFailed
    \/ ReportCreateFailed
    \/ SelectEnd
    \/ CreateFile
    \/ Copy
    \/ SelectEndCopyFails
    \/ ReportCopyFailed
    \/ SelectCancel

Spec == Init /\ [][Next]_vars

(***************************************************************************)
(* The life of Downloader values in one process: Downloader::new and the   *)
(* Drop implementation, called in any order.  pc is "start" before the     *)
(* first call, "begin" when new has returned a Downloader, "dropped" after *)
(* a drop and "panicked" after a new that panicked.                        *)
(***************************************************************************)
Options == [delete_old_fw : BOOLEAN, filter_term : {None} \cup { Some(t) : t \in FilterTerms }]

InitNew ==
    /\ DOWNLOADER_CREATED = FALSE
    /\ live = 0
    /\ handlers = 0
    /\ ctrlc_handler = NotRun
    /\ devices = <<>>
    /\ catalog = <<>>
    /\ opt = [delete_old_fw |-> FALSE, filter_term |-> None]
    /\ total_done = 0
    /\ total_todo = 0
    /\ ctrlc_tx = [value |-> FALSE, version |-> 0]
    /\ ctrlc_received = 0
    /\ kill_program = FALSE
    /\ pc = "start"
    /\ iter = [rest |-> <<>>, filter |-> None]
    /\ device = None
    /\ fw = None
    /\ file_path = None
    /\ temp_file = None
    /\ temp_buf = <<>>
    /\ dl = NoDownload
    /\ fs \in InitialFs
    /\ fs_entry = fs
    /\ calls = <<>>
    /\ out = <<>>
    /\ outcome = NoOutcome
    /\ faults = 0
    /\ intr = None
    /\ leaving = NoOutcome
    /\ read_dir = NoDir

\* lines 45-73: no Downloader was created and the process has no ctrl-c
\* handler: the flag is set, the handler registered, the Downloader built
New ==
    /\ ~DOWNLOADER_CREATED
    /\ handlers = 0
    /\ DOWNLOADER_CREATED' = TRUE
    /\ handlers' = handlers + 1
    /\ ctrlc_handler' = NotRun
    /\ live' = live + 1
    /\ \E devs \in Catalogs : \E o \in Options :
        /\ devices' = devs
        /\ catalog' = devs
        /\ opt' = o
        /\ total_todo' = Len(devs)
    /\ total_done' = 0
    /\ ctrlc_tx' = [value |-> FALSE, version |-> 0]
    /\ ctrlc_received' = 0
    /\ kill_program' = FALSE
    /\ pc' = "begin"
    /\ UNCHANGED <<iter, device, fw, file_path, temp_file, temp_buf, dl, fs,
                   fs_entry, calls, out, outcome, faults, intr, leaving, read_dir>>

\* lines 47-50: the flag is set, new panics before anything else
NewPanicsCreated ==
    /\ DOWNLOADER_CREATED
    /\ pc' = "panicked"
    /\ UNCHANGED <<out, catalog, handlers, ctrlc_handler, live, DOWNLOADER_CREATED, devices, opt,
                   total_done, total_todo, ctrlc_tx, ctrlc_received,
                   kill_program, iter, device, fw, file_path, temp_file,
                   temp_buf, dl, fs, fs_entry, calls, outcome, faults, intr, leaving, read_dir>>

\* lines 47-61: the flag is clear and is set; the process has a handler from
\* an earlier Downloader, ctrlc::set_handler returns Err and expect panics
\* before a Downloader is built
NewPanicsHandler ==
    /\ ~DOWNLOADER_CREATED
    /\ handlers > 0
    /\ DOWNLOADER_CREATED' = TRUE
    /\ pc' = "panicked"
    /\ UNCHANGED <<out, catalog, handlers, ctrlc_handler, live, devices, opt,
                   total_done, total_todo, ctrlc_tx, ctrlc_received,
                   kill_program, iter, device, fw, file_path, temp_file,
                   temp_buf, dl, fs, fs_entry, calls, outcome, faults, intr, leaving, read_dir>>

\* lines 355-362: a Downloader is dropped
Drop ==
    /\ live > 0
    /\ live' = live - 1
    /\ DOWNLOADER_CREATED' = FALSE
    /\ pc' = "dropped"
    /\ UNCHANGED <<catalog, handlers, ctrlc_handler, devices, opt,
                   total_done, total_todo, ctrlc_tx, ctrlc_received,
                   kill_program, iter, device, fw, file_path, temp_file,
                   temp_buf, dl, fs, fs_entry, calls, out, outcome, faults, intr, leaving, read_dir>>

NextNew ==
    \/ New
    \/ NewPanicsCreated
    \/ NewPanicsHandler
    \/ Drop

SpecNew == InitNew /\ [][NextNew]_vars

(***************************************************************************)
(* Client::get_device_firmware on any name: a Downloader that has asked    *)
(* for the listing of a device whose name is any string of up to           *)
(* MaxNameLen characters, separators among them.                           *)
(***************************************************************************)
Chars == {"a", "z", "/", "\\"}
Names == UNION { [1..k -> Chars] : k \in 0..MaxNameLen }

InitSanitize ==
    /\ DOWNLOADER_CREATED = TRUE
    /\ live = 1
    /\ handlers = 1
    /\ ctrlc_handler = NotRun
    /\ \E n \in Names :
        /\ device = Some(Device(n))
        /\ catalog = <<Device(n)>>
        /\ calls = <<<<"get_device_firmware", n>>>>
    /\ devices = <<>>
    /\ opt = [delete_old_fw |-> FALSE, filter_term |-> None]
    /\ total_done = 0
    /\ total_todo = 1
    /\ ctrlc_tx = [value |-> FALSE, version |-> 0]
    /\ ctrlc_received = 0
    /\ kill_program = FALSE
    /\ pc = "fetching"
    /\ iter = [rest |-> <<>>, filter |-> None]
    /\ fw = None
    /\ file_path = None
    /\ temp_file = None
    /\ temp_buf = <<>>
    /\ dl = NoDownload
    /\ fs = EmptyFs
    /\ fs_entry = fs
    /\ out = <<>>
    /\ outcome = NoOutcome
    /\ faults = 0
    /\ intr = None
    /\ leaving = NoOutcome
    /\ read_dir = NoDir

\* client.rs 35-44: the response arrives, its name is sanitized
GetDeviceFirmware ==
    /\ pc = "fetching"
    /\ \E listing \in Listings : fw' = Some(Received(listing))
    /\ pc' = "received"
    /\ UNCHANGED <<catalog, handlers, ctrlc_handler, live, DOWNLOADER_CREATED, devices, opt,
                   total_done, total_todo, ctrlc_tx, ctrlc_received,
                   kill_program, iter, device, file_path, temp_file, temp_buf,
                   dl, fs, fs_entry, calls, out, outcome, faults, intr, leaving, read_dir>>

\* client.rs 39-41 once more, on the listing already received
SanitizeAgain ==
    /\ pc = "received"
    /\ fw' = Some(Received(fw[1]))
    /\ pc' = "again"
    /\ UNCHANGED <<catalog, handlers, ctrlc_handler, live, DOWNLOADER_CREATED, devices, opt,
                   total_done, total_todo, ctrlc_tx, ctrlc_received,
                   kill_program, iter, device, file_path, temp_file, temp_buf,
                   dl, fs, fs_entry, calls, out, outcome, faults, intr, leaving, read_dir>>

NextSanitize ==
    \/ GetDeviceFirmware
    \/ SanitizeAgain

SpecSanitize == InitSanitize /\ [][NextSanitize]_vars

(***************************************************************************)
(* Properties.                                                             *)
(***************************************************************************)
\* the positions of the main task at which the temp stage exists
StageLives == {"reopening", "staged", "opening", "select", "append_failed", "unwrap", "no_dir",
               "creating", "create_failed", "copying", "copy_failed", "returning"}

\* the loop has a further device to visit
MoreDevices == SkipUnselected(iter.rest, iter.filter) # <<>>

\* nothing was created or written since download_firmware was entered
NothingWrittenSinceEntry ==
    /\ fs.dirs = fs_entry.dirs
    /\ \A p \in DOMAIN fs.files :
        p \in DOMAIN fs_entry.files /\ fs.files[p] = fs_entry.files[p]

\* C1: when download_firmware ended on the cancellation branch, no file is at
\* the final path, and no directory and no file was created or written since
\* download_firmware was entered.
C1_NoPromotionAfterCancel ==
    (outcome = "cancelled" \/ leaving = "cancelled") =>
        /\ ~Exists(fs, file_path[1])
        /\ NothingWrittenSinceEntry

\* a download cancelled after chunks were staged
C1_Witness ==
    /\ outcome = "cancelled"
    /\ dl.chunks > 0
    /\ ~Exists(fs_entry, file_path[1])

\* C2: when a download drained to the end of the stream without cancellation
\* and without an I/O error, the file at the final path holds exactly the
\* bytes of all the chunks, in order.
C2_RoundTrip ==
    (outcome = "completed" /\ dl.failure = "none") =>
        /\ Exists(fs, file_path[1])
        /\ fs.files[file_path[1]] = dl.streamed

\* C3 as claimed, in the runs without a failure: when the interrupt arrived
\* in mid-stream, download_firmware ends as cancelled, no file is at the final
\* path and the stage is gone.
C3_InterruptMidStreamCancels ==
    (intr = Some("mid_stream") /\ outcome # NoOutcome /\ dl.failure = "none") =>
        /\ outcome = "cancelled"
        /\ ~Exists(fs, file_path[1])
        /\ temp_file = None

\* C3 as amended: when the handler's send arrived in mid-stream, the cancellation
\* branch is ready at every later poll of the select loop; when it is taken,
\* download_firmware ends as cancelled, no file is at the final path, the
\* stage is gone and begin returns; the download ends otherwise only at
\* the end of the stream or with a panic on a failing chunk.
C3_InterruptMidStream ==
    intr = Some("mid_stream") =>
        /\ pc \in {"select", "append_failed"} => Changed
        /\ outcome = NoOutcome => pc \in StageLives \ {"reopening", "staged", "opening"}
        /\ outcome \in {NoOutcome, "cancelled", "completed", "create_failed",
                        "copy_failed", "panicked"}
        /\ outcome = "cancelled" =>
            /\ kill_program
            /\ pc \in {"killed", "done"}
            /\ ~Exists(fs, file_path[1])
            /\ temp_file = None

\* an interrupt in mid-stream, then the cancellation branch
C3_Witness ==
    /\ intr = Some("mid_stream")
    /\ outcome = "cancelled"
    /\ dl.chunks > 0

\* C4: once the interrupt has arrived before download_firmware began for the
\* device in hand, no request is sent any more and no directory or file is
\* created.
C4_InterruptBeforeDownloadStopsRun ==
    [][intr = Some("before") =>
        /\ calls' = calls
        /\ fs'.dirs = fs.dirs
        /\ DOMAIN fs'.files \subseteq DOMAIN fs.files]_vars

\* C5: kill_program never returns to false; the step that sets it leaves
\* the select loop as cancelled, download_firmware then returns and begin
\* with it: no request is sent and no device is started with kill_program
\* set.
C5_CancelStopsOrchestrator ==
    /\ []((kill_program /\ pc \notin {"killed", "done"}) =>
            (pc = "returning" /\ leaving = "cancelled"))
    /\ [][/\ kill_program => kill_program'
          /\ kill_program' => (/\ pc' \in {"returning", "killed", "done"}
                               /\ calls' = calls
                               /\ device' = device
                               /\ total_done' = total_done)]_vars

\* cancelled with devices left to visit
C5_Witness ==
    /\ kill_program
    /\ outcome = "cancelled"
    /\ MoreDevices

\* C6: after a failure in a download in progress (a failing chunk, a failed
\* append, a failed creation of the final directory or file, a failed copy),
\* download_firmware has ended as failed, without a panic, with no file at the
\* final path, unless it was cancelled.
C6_FailureEndsAsFailure ==
    (dl.failure \in {"chunk", "append", "create", "copy"} /\ outcome # NoOutcome) =>
        \/ outcome = "cancelled"
        \/ /\ outcome \in {"create_failed", "copy_failed"}
           /\ pc # "panicked"
           /\ ~Exists(fs, file_path[1])

\* C7: the step on which get_device_firmware fails prints the error for the
\* device; begin then raises total_done by one, prints the progress line and
\* is back at the top of the loop: download_firmware is not entered, no
\* request is sent, the file system is untouched, begin does not return and
\* the iterator is where it was.
C7_ListingErrorContinues ==
    /\ []((pc = "returning" /\ fw = None) => (~kill_program /\ leaving = NoOutcome))
    /\ [][/\ (pc = "fetching" /\ pc' # "fetching" /\ fw' = None) =>
              /\ pc' = "returning"
              /\ out' = Append(out, <<"Process errored when downloading firmware for",
                                      device[1].name>>)
              /\ ~kill_program'
              /\ <<total_done', outcome', calls', fs', iter', DOWNLOADER_CREATED'>>
                   = <<total_done, outcome, calls, fs, iter, DOWNLOADER_CREATED>>
          /\ (pc = "returning" /\ fw = None /\ pc' # "returning") =>
              /\ pc' = "ended"
              /\ total_done' = total_done + 1
              /\ outcome' = NoOutcome
              /\ <<calls', fs', iter', device', DOWNLOADER_CREATED'>>
                   = <<calls, fs, iter, device, DOWNLOADER_CREATED>>
          /\ (pc = "ended" /\ pc' # "ended") =>
              /\ pc' = "loop"
              /\ out' = Append(out, <<"Ended work on", device[1].name, total_done, total_todo>>)
              /\ <<total_done', calls', fs', iter', DOWNLOADER_CREATED'>>
                   = <<total_done, calls, fs, iter, DOWNLOADER_CREATED>>]_vars

\* a listing error, reported, with a device left to visit
C7_Witness ==
    /\ pc = "loop"
    /\ device # None
    /\ fw = None
    /\ Len(out) >= 2
    /\ out[Len(out) - 1][1] = "Process errored when downloading firmware for"
    /\ out[Len(out)][1] = "Ended work on"
    /\ MoreDevices

\* C8: when the open of the download stream fails (download_ipsw returns
\* Err, or meets a response without a usable location header), the error is
\* printed and download_firmware is left by a return: no chunk was taken, no
\* directory or file was created since download_firmware was entered and
\* kill_program is not set; when download_firmware has returned the temp
\* file is gone and begin goes on to count the device.
C8_OpenErrorContinues ==
    /\ [](leaving = "open_failed" =>
            /\ pc = "returning"
            /\ ~kill_program
            /\ dl.chunks = 0
            /\ fs.dirs = fs_entry.dirs
            /\ ~Exists(fs, file_path[1]))
    /\ [][/\ (pc = "opening" /\ pc' \notin {"opening", "select"}) =>
              /\ leaving' = "open_failed"
              /\ pc' = "returning"
              /\ ~kill_program'
              /\ <<fs', calls', iter', dl'>> = <<fs, calls, iter, dl>>
          /\ (leaving = "open_failed" /\ pc' # pc) =>
              /\ pc' = "ended"
              /\ outcome' = "open_failed"
              /\ temp_file' = None
              /\ temp_buf' = <<>>
              /\ total_done' = total_done + 1
              /\ <<fs', calls', iter'>> = <<fs, calls, iter>>]_vars

\* C9: the step that enters download_firmware with an empty firmware list
\* leaves it as a skip, and until download_firmware has returned as that skip
\* the file system is left alone, no temp file is created and no request is
\* sent.
C9_EmptyListingSkips ==
    [][/\ (pc = "fetching" /\ fw' # None /\ fw'[1].firmwares = <<>>) =>
          /\ leaving' = "no_firmware"
          /\ pc' = "returning"
          /\ fs' = fs
          /\ temp_file' = None
          /\ calls' = calls
       /\ leaving = "no_firmware" =>
          /\ fs' = fs
          /\ temp_file' = None
          /\ calls' = calls
          /\ pc' # pc => (outcome' = "no_firmware" /\ pc' = "ended")]_vars

\* an empty listing with delete_old_fw set and files in the device's directory
C9_Witness ==
    /\ outcome = "no_firmware"
    /\ opt.delete_old_fw
    /\ FilesIn(fs, fw[1].name) # {}

\* C10: the step that enters download_firmware with a listing whose final
\* path (sanitized name / version of firmwares[0] .ipsw) exists leaves it as
\* a skip, and until download_firmware has returned as that skip no request
\* is sent, no temp file is created and every file is left as it was.
C10_ExistingFileSkips ==
    /\ [][(/\ pc = "fetching"
        /\ fw' # None
        /\ fw'[1].firmwares # <<>>
        /\ Exists(fs, [dir |-> fw'[1].name,
                       file |-> fw'[1].firmwares[1].version \o ".ipsw"])) =>
        /\ leaving' = "already_downloaded"
        /\ pc' = "returning"
        /\ fs' = fs
        /\ temp_file' = None
        /\ calls' = calls]_vars
    /\ [][leaving = "already_downloaded" =>
          /\ fs' = fs
          /\ temp_file' = None
          /\ calls' = calls
          /\ pc' # pc => (outcome' = "already_downloaded" /\ pc' = "ended")]_vars

\* an existing file skipped with delete_old_fw set
C10_Witness ==
    /\ outcome = "already_downloaded"
    /\ opt.delete_old_fw
    /\ fs.files[file_path[1]] = OldContent

\* the identifiers of the devices whose listing was requested, in order
Requested ==
    LET r == SelectSeq(calls, LAMBDA c : c[1] = "get_device_firmware")
    IN  [i \in 1..Len(r) |-> r[i][2]]

\* term occurs in name as a run of consecutive characters, compared exactly
OccursIn(term, name) ==
    \E i \in 1..(Len(name) + 1) : \E j \in 0..Len(name) : SubSeq(name, i, j) = term

\* the identifiers of the devices of the list new was given that the filter
\* of this run selects, in the order of the list
Chosen ==
    LET pick == SelectSeq(catalog, LAMBDA d : iter.filter = None \/ OccursIn(iter.filter[1], d.name))
    IN  [i \in 1..Len(pick) |-> pick[i].identifier]

\* C11: once begin has taken the filter, total_todo is the number of devices
\* of the list whose name contains the filter term (all of them without a
\* filter), the devices requested so far are the first of these, in the order
\* of the list, and when the loop has run to its end they are all of these.
C11_FilterSelects ==
    pc # "begin" =>
        /\ total_todo = Len(Chosen)
        /\ iter.filter = None => total_todo = Len(catalog)
        /\ Len(Requested) <= Len(Chosen)
        /\ Requested = SubSeq(Chosen, 1, Len(Requested))
        /\ (pc = "done" /\ ~kill_program) => Requested = Chosen

\* a run to the end with a filter that leaves out the first device of two,
\* whose name holds the term in the other case
C11_Witness ==
    /\ pc = "done"
    /\ ~kill_program
    /\ iter.filter = Some(<<"b">>)
    /\ Len(catalog) = 2
    /\ catalog[1].name = <<"B", "\\">>
    /\ Requested = <<catalog[2].identifier>>
    /\ total_todo = 1

\* the main task is between the request of a device's listing and the end of
\* that device's processing
InDevice(at) == at \in {"fetching", "deleting", "removed", "staging"} \cup StageLives

\* the progress lines printed
ProgressLines(lines) == SelectSeq(lines, LAMBDA l : l[1] = "Ended work on")

\* C12: when no device is in hand (the main task is at the top of the loop
\* or begin has ended), whatever the outcomes (here in the runs without a
\* failure: completed, skipped, cancelled), every device that was started
\* has added one to total_done and has its progress line.
C12_EveryDeviceCounted ==
    (pc \in {"loop", "finished", "killed", "done"} /\ faults = 0) =>
        /\ total_done = Len(Requested)
        /\ Len(ProgressLines(out)) = Len(Requested)

\* the elapsed-time lines printed
SummaryLines(lines) == SelectSeq(lines, LAMBDA l : l[1] = "Finished in minutes")

\* C13: when begin has ended (here in the runs without a failure), the
\* elapsed-time line was printed exactly once, also when the loop stopped on
\* cancellation.
C13_SummaryOnce ==
    /\ Len(SummaryLines(out)) <= 1
    /\ (pc \in {"done", "panicked"} /\ faults = 0) => Len(SummaryLines(out)) = 1

\* C14 as claimed: once the handler has fired, a wait on the signal resolves
\* at once in every later state, also after an earlier wait has resolved.
C14_AlwaysResolves == ctrlc_tx.value => Changed

\* C14 as amended: once the handler has sent while the Downloader is alive,
\* the value stays true and a wait on the signal resolves at once as long as
\* no wait has resolved; a further interrupt prints the handler's line
\* again and its send changes nothing but the version; the wait that
\* resolves sets kill_program and leaves the loop, download_firmware and
\* begin return, so that no later wait is issued; and a handler whose send
\* comes when the Downloader is dropped sends nothing and panics.
C14_LatchUntilObserved ==
    /\ [](/\ ctrlc_tx.version > 0 => ctrlc_tx.value
          /\ (ctrlc_tx.value /\ ~kill_program) => (Changed /\ ctrlc_received = 0)
          /\ kill_program => (/\ pc \in {"returning", "killed", "done"}
                              /\ ctrlc_tx.value
                              /\ ctrlc_received > 0)
          /\ ctrlc_handler.panicked => live = 0)
    /\ [][(ctrlc_tx.value /\ ctrlc_tx'.version # ctrlc_tx.version) =>
            /\ ctrlc_tx'.value
            /\ Changed'
            /\ <<kill_program', ctrlc_received', pc', calls', fs', out'>>
                 = <<kill_program, ctrlc_received, pc, calls, fs, out>>]_vars
    /\ [][ctrlc_handler'.runs # ctrlc_handler.runs =>
            /\ out' = Append(out, <<"ctrlc received, exiting...">>)
            /\ <<ctrlc_tx', kill_program', ctrlc_received', pc', calls', fs'>>
                 = <<ctrlc_tx, kill_program, ctrlc_received, pc, calls, fs>>]_vars
    /\ [][(ctrlc_handler.printed /\ ~ctrlc_handler'.printed /\ live = 0) =>
            (ctrlc_tx' = ctrlc_tx /\ ctrlc_handler'.panicked)]_vars

\* two interrupts before the wait that resolved
C14_Witness ==
    /\ kill_program
    /\ ctrlc_tx.version = 2
    /\ ctrlc_received = 2
    /\ outcome = "cancelled"

\* C15: under any sequence of new and drop, at most one Downloader is alive
\* and at most one handler is registered, and DOWNLOADER_CREATED is true
\* exactly while a Downloader is alive.
C15_SingletonFlag ==
    /\ live <= 1
    /\ handlers <= 1
    /\ DOWNLOADER_CREATED <=> live = 1

\* the files of directory d reported as not removed in these lines
ReportedNotRemoved(lines, d) ==
    { [dir |-> d, file |-> lines[i][2]] :
        i \in { j \in 1..Len(lines) : lines[j][1] = "failed to delete old file" } }

\* the entry whose removal failed and is not yet reported
Unreported ==
    IF read_dir.entry # None /\ ~read_dir.removed THEN {read_dir.entry[1]} ELSE {}

\* C16: with delete_old_fw set and the final path absent, every file of the
\* device's directory is handed to remove_file, one per step, whether or not
\* an earlier removal failed, and each is reported as removed or as not
\* removed; no request is sent, no temp file is made and no file is created
\* while files are left to visit; in every later state of that download, and
\* after it has failed or was cancelled, the only old files in the directory
\* are those reported as not removed.
C16_DeleteOldFirst ==
    /\ []((opt.delete_old_fw /\ pc \in {"deleting", "removed"}) =>
            /\ FilesIn(fs, file_path[1].dir)
                  \subseteq (read_dir.rest \cup Unreported)
                             \cup ReportedNotRemoved(out, file_path[1].dir)
            /\ temp_file = None)
    /\ []((/\ opt.delete_old_fw
           /\ file_path # None
           /\ pc \notin {"deleting", "removed"}
           /\ "already_downloaded" \notin {leaving, outcome}) =>
            FilesIn(fs, file_path[1].dir) \ {file_path[1]}
                \subseteq ReportedNotRemoved(out, file_path[1].dir))
    /\ [][/\ (pc = "fetching" /\ pc' = "deleting" /\ opt.delete_old_fw) =>
              (read_dir'.rest = FilesIn(fs, file_path'[1].dir) /\ fs' = fs)
          /\ (pc = "deleting" /\ pc' = "removed") =>
              /\ read_dir'.entry # None
              /\ read_dir'.entry[1] \in read_dir.rest
              /\ read_dir'.rest = read_dir.rest \ {read_dir'.entry[1]}
              /\ fs' = IF read_dir'.removed THEN RemoveFiles(fs, {read_dir'.entry[1]}) ELSE fs
              /\ calls' = calls
          /\ (pc = "removed" /\ pc' # "removed") =>
              /\ pc' = "deleting"
              /\ out' = Append(out, <<IF Exists(fs, read_dir.entry[1])
                                      THEN "failed to delete old file"
                                      ELSE "deleted old file", read_dir.entry[1].file>>)
              /\ <<fs', calls'>> = <<fs, calls>>
          /\ (pc = "deleting" /\ pc' = "staging") => (read_dir.rest = {} /\ fs' = fs)
          /\ (calls' # calls /\ pc # "loop") => pc = "staged"]_vars

\* C17: the devices requested are the first of the selected devices, each
\* once and in the order of the list; a device is started only from the top
\* of the loop, when the one before has ended; and when the run has ended
\* without cancellation (here with no failure but a failing stream item)
\* every selected device was requested.
C17_EachSelectedDeviceOnce ==
    /\ [](/\ Len(Requested) <= Len(Chosen)
          /\ Requested = SubSeq(Chosen, 1, Len(Requested))
          /\ (/\ pc \in {"done", "panicked"}
              /\ ~kill_program
              /\ pc = "panicked" => dl.failure = "chunk") => Requested = Chosen)
    /\ [][Requested' # Requested => (pc = "loop" /\ pc' = "fetching")]_vars

\* the name holds a path separator
HasSeparator(name) == \E i \in 1..Len(name) : name[i] \in {"/", "\\"}

\* C18: whatever the name of the device, the listing get_device_firmware
\* returns has a name without '/' and without '\\', and passing that listing
\* through the sanitization again leaves its name as it is.
C18_SanitizeTotalIdempotent ==
    /\ [](fw # None => ~HasSeparator(fw[1].name))
    /\ [][(pc = "received" /\ pc' = "again") => fw'[1].name = fw[1].name]_vars

\* a name with both separators, one of them twice, sanitized twice
C18_Witness ==
    /\ pc = "again"
    /\ device[1].name = <<"/", "\\", "/">>
    /\ fw[1].name = <<"z", "z", "z">>

\* C19: when download_firmware has returned, a file at the final path that
\* was not there when it was entered holds all the bytes the stream
\* delivered (here already in the runs in which no operation failed).
C19_OnlyValidFiles ==
    (/\ outcome # NoOutcome
     /\ faults = 0
     /\ file_path # None
     /\ Exists(fs, file_path[1])
     /\ ~Exists(fs_entry, file_path[1])) =>
        fs.files[file_path[1]] = dl.streamed

FinishedDevices ==
    Len(Requested) - (IF \/ InDevice(pc)
                         \/ pc \in {"unwinding", "panicked"}
                         \/ (pc \in {"killed", "done"} /\ kill_program)
                      THEN 1 ELSE 0)

\* C21: in every state, 0 <= total_done <= total_todo and total_done is the
\* number of devices whose processing has finished without cancellation;
\* when the loop has run to its end, total_done = total_todo; and total_todo
\* does not change once begin has taken the filter.
C21_ProgressAccounting ==
    /\ [](/\ 0 <= total_done
          /\ total_done <= total_todo
          /\ total_done = FinishedDevices
          /\ (pc = "done" /\ ~kill_program) => total_done = total_todo)
    /\ [][pc # "begin" => total_todo' = total_todo]_vars

\* a run of two devices cancelled in the second: one device is counted
C21_Witness ==
    /\ pc = "done"
    /\ kill_program
    /\ total_todo = 2
    /\ total_done = 1
    /\ Len(Requested) = 2

====
